---- MODULE Spec2Model ----
(***************************************************************************)
(* Hospital queue management: the queue engine of HospitalDatabase         *)
(* (src/Hospital-Queue-Management/src/database.py) as a state machine.     *)
(* The state is the content of the SQLite tables; every public method is   *)
(* one atomic action (the program is a single synchronous client).         *)
(* A method that opens a second connection while its own transaction is    *)
(* open reads the COMMITTED tables through it, and cannot write through it.*)
(***************************************************************************)
EXTENDS Integers, Sequences, FiniteSets, TLC

(* ---------------- bounds of the model ---------------- *)
MaxPatients == 2
MaxHistory == 4
MaxClock == 1
TicksPerDay == 1

(* ---------------- program constants ---------------- *)
\* a busy day: registrations already made when the day is looked at, and the
\* most the table holds
BusyDayStart == 998
MaxBusyDay == 1001

PadWidth == 3
MinutesPerPatient == 15
MaxWait == 240
DefaultLimit == 50

\* SQL NULL / Python None in a text column, a token column, a timestamp
\* column (instants are >= 0) and a queue position column (ranks are >= 1)
None == "None"
NoToken == <<>>
NoTime == -1
NoPosition == 0
\* get_queue_position's answer for a token that is in no row
NotFound == -1

Emergency == 1
Regular == 2
FollowUp == 3
PriorityLevels == {Emergency, Regular, FollowUp}

default_departments ==
    [n \in {"Emergency", "General Medicine", "Pediatrics", "Cardiology",
            "Orthopedics", "Dermatology"} |->
        CASE n = "Emergency" -> [department_code |-> "ER", current_wait_time |-> 15]
          [] n = "General Medicine" -> [department_code |-> "GM", current_wait_time |-> 45]
          [] n = "Pediatrics" -> [department_code |-> "PED", current_wait_time |-> 30]
          [] n = "Cardiology" -> [department_code |-> "CARD", current_wait_time |-> 60]
          [] n = "Orthopedics" -> [department_code |-> "ORTH", current_wait_time |-> 40]
          [] OTHER -> [department_code |-> "DERM", current_wait_time |-> 25]]

default_doctors ==
    [n \in {"Dr. Smith", "Dr. Johnson", "Dr. Williams", "Dr. Brown", "Dr. Davis"} |->
        [is_available |-> TRUE, current_patient_token |-> NoToken]]

(* ---------------- inputs the callers are drawn from ---------------- *)
\* (department, department_code) of a registration
RegistrationInputs == {<<None, None>>, <<"Cardiology", "CARD">>}
DepartmentInputs == {None, "Cardiology"}
WalkInPriorities == {Emergency, Regular}
NameInputs == {"", "A"}
DefaultName == "A"
DoctorInputs == {None, "Dr. Smith"}
ReasonInputs == {"no show"}
WaitTimeInputs == {230}
DaysInputs == {0, 1}
UnknownToken == <<"HOSP", 0, <<0, 0, 0>>>>
\* the processes that may call add_patient on one database file
Clients == {"c1", "c2"}

\* pending[c]: the token client c has derived in add_patient and not yet inserted
VARIABLES patients, departments, doctors, queue_history, statistics, clock, pending

vars == <<patients, departments, doctors, queue_history, statistics, clock, pending>>
store == <<patients, departments, doctors, queue_history, statistics>>

(* ---------------- helpers ---------------- *)
Min(a, b) == IF a < b THEN a ELSE b

\* datetime.now().strftime('%Y%m%d') / DATE(...): the calendar day of an instant
\* (the clock counts seconds; local time and UTC are taken to agree)
DayOf(t) == t \div TicksPerDay

RECURSIVE Digits(_)
Digits(n) == IF n < 10 THEN <<n>> ELSE Append(Digits(n \div 10), n % 10)

RECURSIVE ZeroPad(_, _)
ZeroPad(d, w) == IF Len(d) >= w THEN d ELSE ZeroPad(<<0>> \o d, w)

\* f"{new_number:03d}"
Format(n) == ZeroPad(Digits(n), PadWidth)

\* int(result[0].split('-')[-1])
RECURSIVE ParseInt(_)
ParseInt(d) == IF Len(d) = 0 THEN 0 ELSE 10 * ParseInt(SubSeq(d, 1, Len(d) - 1)) + d[Len(d)]

\* text comparison of two digit strings, as ORDER BY token_number compares them
RECURSIVE LexLess(_, _)
LexLess(a, b) ==
    IF Len(a) = 0 THEN Len(b) > 0
    ELSE IF Len(b) = 0 THEN FALSE
    ELSE IF a[1] # b[1] THEN a[1] < b[1]
    ELSE LexLess(Tail(a), Tail(b))

ExistingTokens == {patients[i].token_number : i \in 1..Len(patients)}

PatientOf(token) == CHOOSE i \in 1..Len(patients) : patients[i].token_number = token

Waiting == {i \in 1..Len(patients) : patients[i].status = "waiting"}

\* what a call returns (or raises) and the tables it leaves committed
Outcome(result, raises, p, dep, doc, h, st) ==
    [result |-> result, raises |-> raises, patients |-> p, departments |-> dep,
     doctors |-> doc, queue_history |-> h, statistics |-> st]

\* a call that commits nothing
NoChange(result, raises) ==
    Outcome(result, raises, patients, departments, doctors, queue_history, statistics)

StoreOf(o) == <<o.patients, o.departments, o.doctors, o.queue_history, o.statistics>>

(* ---------------- pure queries ---------------- *)
\* mutant: the LIKE pattern forgets the department code, one sequence for all prefixes
generate_token_any_prefix(department_code) ==
    LET today == DayOf(clock)
        code == IF department_code # None THEN department_code ELSE "HOSP"
        suffixes == {t[3] : t \in {u \in ExistingTokens : u[2] = today}}
        new_number ==
            IF suffixes # {}
            THEN LET last == CHOOSE s \in suffixes :
                                 \A o \in suffixes : o = s \/ LexLess(o, s)
                 IN  ParseInt(last) + 1
            ELSE 1
    IN  <<code, today, Format(new_number)>>

generate_token(department_code) ==
    LET today == DayOf(clock)
        code == IF department_code # None THEN department_code ELSE "HOSP"
        suffixes == {t[3] : t \in {u \in ExistingTokens : u[1] = code /\ u[2] = today}}
        new_number ==
            IF suffixes # {}
            THEN LET last == CHOOSE s \in suffixes :
                                 \A o \in suffixes : o = s \/ LexLess(o, s)
                 IN  ParseInt(last) + 1
            ELSE 1
    IN  <<code, today, Format(new_number)>>

patients_ahead(priority, department) ==
    Cardinality({i \in Waiting :
        /\ (department # None => patients[i].department = department)
        /\ \/ patients[i].priority_level > priority
           \/ /\ patients[i].priority_level = priority
              /\ patients[i].registration_time < clock})

total_wait(priority, department) ==
    LET base_time == IF priority = Emergency THEN 0
                     ELSE IF priority = Regular THEN 20 ELSE 10
        dept_time == IF department # None /\ department \in DOMAIN departments
                     THEN departments[department].current_wait_time ELSE 0
    IN  base_time + dept_time + patients_ahead(priority, department) * MinutesPerPatient

\* mutant: the ceiling of 240 minutes is forgotten
calculate_wait_time_unclamped(priority, department) ==
    total_wait(priority, department)

calculate_wait_time(priority, department) ==
    Min(total_wait(priority, department), MaxWait)

\* mutant: the count forgets status = 'waiting' and ranks among all records
get_queue_position_all_rows(token_number) ==
    IF token_number \notin ExistingTokens THEN NotFound
    ELSE LET me == patients[PatientOf(token_number)]
         IN  Cardinality({i \in 1..Len(patients) :
                 \/ patients[i].priority_level < me.priority_level
                 \/ /\ patients[i].priority_level = me.priority_level
                    /\ patients[i].registration_time < me.registration_time}) + 1

get_queue_position(token_number) ==
    IF token_number \notin ExistingTokens THEN NotFound
    ELSE LET me == patients[PatientOf(token_number)]
         IN  Cardinality({i \in Waiting :
                 \/ patients[i].priority_level < me.priority_level
                 \/ /\ patients[i].priority_level = me.priority_level
                    /\ patients[i].registration_time < me.registration_time}) + 1

\* mutant: ORDER BY registration_time only, the priority class is ignored
get_next_patient_fifo ==
    {patients[i].token_number : i \in {j \in Waiting : \A k \in Waiting :
        patients[j].registration_time <= patients[k].registration_time}}

\* mutant: FollowUp patients are never returned
get_next_patient_urgent ==
    {patients[i].token_number :
        i \in {j \in Waiting :
                  /\ patients[j].priority_level # FollowUp
                  /\ \A k \in Waiting :
                         patients[k].priority_level # FollowUp =>
                             \/ patients[j].priority_level < patients[k].priority_level
                             \/ /\ patients[j].priority_level = patients[k].priority_level
                                /\ patients[j].registration_time <=
                                       patients[k].registration_time}}

\* ORDER BY priority_level ASC, registration_time ASC LIMIT 1: SQL leaves the
\* order of rows with equal sort keys open, so every minimal row is a possible result
get_next_patient ==
    {patients[i].token_number : i \in {j \in Waiting : \A k \in Waiting :
        \/ patients[j].priority_level < patients[k].priority_level
        \/ /\ patients[j].priority_level = patients[k].priority_level
           /\ patients[j].registration_time <= patients[k].registration_time}}

\* the lists get_current_queue may return: the waiting rows (of the department,
\* when one is given) ORDER BY priority_level ASC, registration_time ASC, rows
\* with equal sort keys in any order
get_current_queue(department) ==
    LET rows == {i \in Waiting :
                    department # None => patients[i].department = department}
        n == Cardinality(rows)
        orders == {s \in [1..n -> rows] :
                      /\ \A a, b \in 1..n : a # b => s[a] # s[b]
                      /\ \A a, b \in 1..n : a < b =>
                             \/ patients[s[a]].priority_level < patients[s[b]].priority_level
                             \/ /\ patients[s[a]].priority_level = patients[s[b]].priority_level
                                /\ patients[s[a]].registration_time
                                       <= patients[s[b]].registration_time}
    IN  {[k \in 1..n |-> patients[s[k]].token_number] : s \in orders}

\* the rows get_queue_history returns for a token: the columns of its SELECT
\* (notes is not among them), the newest `limit` entries
get_queue_history(token_number, limit) ==
    LET mine == {k \in 1..Len(queue_history) :
                    queue_history[k].token_number = token_number}
        kept == IF Cardinality(mine) <= limit THEN mine
                ELSE CHOOSE S \in SUBSET mine :
                         /\ Cardinality(S) = limit
                         /\ \A a \in S, b \in mine \ S :
                                queue_history[b].action_time <= queue_history[a].action_time
    IN  {[action_time |-> queue_history[k].action_time,
          action |-> queue_history[k].action,
          previous_status |-> queue_history[k].previous_status,
          new_status |-> queue_history[k].new_status,
          queue_position_before |-> queue_history[k].queue_position_before,
          queue_position_after |-> queue_history[k].queue_position_after,
          performed_by |-> "system",
          full_name |-> patients[PatientOf(token_number)].full_name] : k \in kept}

(* ---------------- initial state: init_database on a fresh file ---------------- *)
Init ==
    /\ patients = <<>>
    /\ departments = default_departments
    /\ doctors = default_doctors
    /\ queue_history = <<>>
    /\ statistics = <<>>
    /\ clock = 0
    /\ pending = [c \in Clients |-> NoToken]

\* the state after BusyDayStart walk-in registrations of Regular patients in
\* the first second of day 0: add_patient has numbered them 001, 002, ...
InitBusyDay ==
    /\ patients =
           [i \in 1..BusyDayStart |->
               [token_number |-> <<"HOSP", 0, Format(i)>>,
                full_name |-> DefaultName,
                priority_level |-> Regular,
                department |-> None,
                doctor_assigned |-> None,
                registration_time |-> 0,
                consultation_start_time |-> NoTime,
                consultation_end_time |-> NoTime,
                status |-> "waiting",
                estimated_wait_time |-> 20,
                is_emergency |-> FALSE,
                is_follow_up |-> FALSE]]
    /\ departments = default_departments
    /\ doctors = default_doctors
    /\ queue_history =
           [i \in 1..BusyDayStart |->
               [token_number |-> <<"HOSP", 0, Format(i)>>, action |-> "REGISTERED",
                action_time |-> 0, previous_status |-> None, new_status |-> "waiting",
                queue_position_before |-> NoPosition, queue_position_after |-> NotFound,
                notes |-> None]]
    /\ statistics = <<>>
    /\ clock = 0
    /\ pending = [c \in Clients |-> NoToken]

(* ---------------- the wall clock ---------------- *)
Tick ==
    /\ clock < MaxClock
    /\ clock' = clock + 1
    /\ UNCHANGED <<store, pending>>

(* ---------------- operations: the outcome of each method ---------------- *)
HistoryEntry(token, action, prev, new, before, after, notes) ==
    [token_number |-> token, action |-> action, action_time |-> clock,
     previous_status |-> prev, new_status |-> new,
     queue_position_before |-> before, queue_position_after |-> after,
     notes |-> notes]

SetPatient(i, row) == [patients EXCEPT ![i] = row]

\* mutant: token_number has no UNIQUE constraint
insert_patient_no_unique(token, full_name, priority_level, department, is_follow_up) ==
    Outcome(token, None,
            Append(patients,
                [token_number |-> token,
                 full_name |-> full_name,
                 priority_level |-> priority_level,
                 department |-> department,
                 doctor_assigned |-> None,
                 registration_time |-> clock,
                 consultation_start_time |-> NoTime,
                 consultation_end_time |-> NoTime,
                 status |-> "waiting",
                 estimated_wait_time |-> calculate_wait_time(priority_level, department),
                 is_emergency |-> (priority_level = Emergency),
                 is_follow_up |-> is_follow_up]),
            departments, doctors,
            Append(queue_history,
                HistoryEntry(token, "REGISTERED", None, "waiting",
                             NoPosition, get_queue_position(token), None)),
            statistics)

\* add_patient once its token is derived: the transaction that inserts the
\* patient and its REGISTERED entry
insert_patient(token, full_name, priority_level, department, is_follow_up) ==
    LET estimated_wait == calculate_wait_time(priority_level, department)
        row == [token_number |-> token,
                full_name |-> full_name,
                priority_level |-> priority_level,
                department |-> department,
                doctor_assigned |-> None,
                registration_time |-> clock,
                consultation_start_time |-> NoTime,
                consultation_end_time |-> NoTime,
                status |-> "waiting",
                estimated_wait_time |-> estimated_wait,
                is_emergency |-> (priority_level = Emergency),
                is_follow_up |-> is_follow_up]
    IN  IF token \in ExistingTokens \/ full_name = None
                                    \/ priority_level \notin PriorityLevels
        THEN \* UNIQUE constraint on token_number, NOT NULL on full_name, CHECK
             \* on priority_level: the insert raises, rollback
             NoChange(NoToken, "IntegrityError")
        ELSE \* get_queue_position runs on a second connection: the row just
             \* inserted is not committed yet and is not seen by it
             Outcome(token, None,
                     Append(patients, row), departments, doctors,
                     Append(queue_history,
                         HistoryEntry(token, "REGISTERED", None, "waiting",
                                      NoPosition, get_queue_position(token), None)),
                     statistics)

add_patient(full_name, priority_level, department, department_code, is_follow_up) ==
    insert_patient(generate_token(department_code), full_name, priority_level,
                   department, is_follow_up)

\* mutant: the doctors table is not updated
start_consultation_no_binding(token_number, doctor_name) ==
    IF token_number \in ExistingTokens
       /\ patients[PatientOf(token_number)].status = "waiting"
    THEN Outcome(TRUE, None,
             SetPatient(PatientOf(token_number),
                 [patients[PatientOf(token_number)] EXCEPT
                     !.status = "in_consultation",
                     !.consultation_start_time = clock,
                     !.doctor_assigned = doctor_name]),
             departments, doctors,
             Append(queue_history,
                 HistoryEntry(token_number, "CONSULTATION_STARTED", "waiting",
                              "in_consultation", get_queue_position(token_number),
                              NoPosition, None)),
             statistics)
    ELSE NoChange(FALSE, None)

\* mutant: the doctor gets the token but is_available is left as it is
start_consultation_stays_available(token_number, doctor_name) ==
    LET o == start_consultation_no_binding(token_number, doctor_name)
    IN  IF o.result = TRUE /\ doctor_name # None /\ doctor_name \in DOMAIN doctors
        THEN [o EXCEPT !.doctors[doctor_name].current_patient_token = token_number]
        ELSE o

\* mutant: the UPDATE forgets AND status = 'waiting'
start_consultation_any_status(token_number, doctor_name) ==
    IF token_number \in ExistingTokens
    THEN Outcome(TRUE, None,
             SetPatient(PatientOf(token_number),
                 [patients[PatientOf(token_number)] EXCEPT
                     !.status = "in_consultation",
                     !.consultation_start_time = clock,
                     !.doctor_assigned = doctor_name]),
             departments,
             IF doctor_name # None /\ doctor_name \in DOMAIN doctors
             THEN [doctors EXCEPT ![doctor_name] =
                      [is_available |-> FALSE,
                       current_patient_token |-> token_number]]
             ELSE doctors,
             Append(queue_history,
                 HistoryEntry(token_number, "CONSULTATION_STARTED", "waiting",
                              "in_consultation", get_queue_position(token_number),
                              NoPosition, None)),
             statistics)
    ELSE NoChange(FALSE, None)

start_consultation(token_number, doctor_name) ==
    LET old_position == get_queue_position(token_number)
    IN  IF token_number \in ExistingTokens
           /\ patients[PatientOf(token_number)].status = "waiting"
        THEN Outcome(TRUE, None,
                 SetPatient(PatientOf(token_number),
                     [patients[PatientOf(token_number)] EXCEPT
                         !.status = "in_consultation",
                         !.consultation_start_time = clock,
                         !.doctor_assigned = doctor_name]),
                 departments,
                 IF doctor_name # None /\ doctor_name \in DOMAIN doctors
                 THEN [doctors EXCEPT ![doctor_name] =
                          [is_available |-> FALSE,
                           current_patient_token |-> token_number]]
                 ELSE doctors,
                 Append(queue_history,
                     HistoryEntry(token_number, "CONSULTATION_STARTED", "waiting",
                                  "in_consultation", old_position, NoPosition, None)),
                 statistics)
        ELSE NoChange(FALSE, None)

StatsExist(date) == \E k \in 1..Len(statistics) : statistics[k].date = date

\* the row update_daily_statistics computes from the committed patients table
DailyRow ==
    LET done == {i \in 1..Len(patients) :
                    /\ DayOf(patients[i].registration_time) = DayOf(clock)
                    /\ patients[i].status = "completed"}
        count(pr) == Cardinality({i \in done : patients[i].priority_level = pr})
    IN  [date |-> DayOf(clock),
         total_patients |-> Cardinality(done),
         emergency_cases |-> count(Emergency),
         regular_cases |-> count(Regular),
         follow_up_cases |-> count(FollowUp)]

\* mutant: the row is computed and inserted whether or not the date has one
update_daily_statistics_recompute ==
    Outcome(None, None, patients, departments, doctors, queue_history,
            Append(statistics, DailyRow))

update_daily_statistics ==
    IF StatsExist(DayOf(clock)) THEN NoChange(None, None)
    ELSE Outcome(None, None, patients, departments, doctors, queue_history,
                 Append(statistics, DailyRow))

\* what a completion that goes through returns and commits
Completed(token_number) ==
    LET doctor_name == patients[PatientOf(token_number)].doctor_assigned
    IN  Outcome(TRUE, None,
            SetPatient(PatientOf(token_number),
                [patients[PatientOf(token_number)] EXCEPT
                    !.status = "completed",
                    !.consultation_end_time = clock]),
            departments,
            IF doctor_name # None /\ doctor_name \in DOMAIN doctors
            THEN [doctors EXCEPT ![doctor_name] =
                     [is_available |-> TRUE, current_patient_token |-> NoToken]]
            ELSE doctors,
            Append(queue_history,
                HistoryEntry(token_number, "CONSULTATION_COMPLETED",
                             "in_consultation", "completed",
                             NoPosition, NoPosition, None)),
            statistics)

\* mutant: the UPDATE forgets AND status = 'in_consultation'
complete_consultation_any_status(token_number) ==
    IF token_number \in ExistingTokens
    THEN IF StatsExist(DayOf(clock)) THEN Completed(token_number)
         ELSE NoChange(FALSE, "OperationalError")
    ELSE NoChange(FALSE, None)

\* mutant: a completed patient is put back into the waiting set
complete_consultation_requeue(token_number) ==
    IF token_number \in ExistingTokens
       /\ patients[PatientOf(token_number)].status = "in_consultation"
    THEN IF StatsExist(DayOf(clock))
         THEN [Completed(token_number) EXCEPT
                  !.patients[PatientOf(token_number)].status = "waiting"]
         ELSE NoChange(FALSE, "OperationalError")
    ELSE NoChange(FALSE, None)

\* mutant: the completion is committed before the statistics are written, so
\* the failure of that write leaves it in the tables
complete_consultation_commit_first(token_number) ==
    IF token_number \in ExistingTokens
       /\ patients[PatientOf(token_number)].status = "in_consultation"
    THEN IF StatsExist(DayOf(clock)) THEN Completed(token_number)
         ELSE [Completed(token_number) EXCEPT
                  !.result = FALSE, !.raises = "OperationalError"]
    ELSE NoChange(FALSE, None)

complete_consultation(token_number) ==
    LET doctor_name == IF token_number \in ExistingTokens
                       THEN patients[PatientOf(token_number)].doctor_assigned
                       ELSE None
    IN  IF token_number \in ExistingTokens
           /\ patients[PatientOf(token_number)].status = "in_consultation"
        THEN IF StatsExist(DayOf(clock))
             THEN Outcome(TRUE, None,
                      SetPatient(PatientOf(token_number),
                          [patients[PatientOf(token_number)] EXCEPT
                              !.status = "completed",
                              !.consultation_end_time = clock]),
                      departments,
                      IF doctor_name # None /\ doctor_name \in DOMAIN doctors
                      THEN [doctors EXCEPT ![doctor_name] =
                               [is_available |-> TRUE,
                                current_patient_token |-> NoToken]]
                      ELSE doctors,
                      Append(queue_history,
                          HistoryEntry(token_number, "CONSULTATION_COMPLETED",
                                       "in_consultation", "completed",
                                       NoPosition, NoPosition, None)),
                      statistics)
             ELSE \* update_daily_statistics inserts through a second connection
                  \* while this transaction holds the write lock: "database is
                  \* locked" is raised and the whole transaction is rolled back
                  NoChange(FALSE, "OperationalError")
        ELSE NoChange(FALSE, None)

\* mutant: the history entry says the patient was waiting, whatever it was
cancel_patient_assumes_waiting(token_number, reason) ==
    IF token_number \notin ExistingTokens
    THEN NoChange(FALSE, None)
    ELSE Outcome(TRUE, None,
             SetPatient(PatientOf(token_number),
                 [patients[PatientOf(token_number)] EXCEPT !.status = "cancelled"]),
             departments, doctors,
             Append(queue_history,
                 HistoryEntry(token_number, "CANCELLED", "waiting", "cancelled",
                              get_queue_position(token_number), NoPosition, reason)),
             statistics)

\* mutant: a cancellation stamps consultation_end_time
cancel_patient_stamps_end(token_number, reason) ==
    IF token_number \notin ExistingTokens
    THEN NoChange(FALSE, None)
    ELSE Outcome(TRUE, None,
             SetPatient(PatientOf(token_number),
                 [patients[PatientOf(token_number)] EXCEPT
                     !.status = "cancelled", !.consultation_end_time = clock]),
             departments, doctors,
             Append(queue_history,
                 HistoryEntry(token_number, "CANCELLED",
                              patients[PatientOf(token_number)].status, "cancelled",
                              NoPosition, NoPosition, reason)),
             statistics)

\* mutant: the cancellation is not logged
cancel_patient_no_history(token_number, reason) ==
    IF token_number \notin ExistingTokens
    THEN NoChange(FALSE, None)
    ELSE Outcome(TRUE, None,
             SetPatient(PatientOf(token_number),
                 [patients[PatientOf(token_number)] EXCEPT !.status = "cancelled"]),
             departments, doctors, queue_history, statistics)

cancel_patient(token_number, reason) ==
    IF token_number \notin ExistingTokens
    THEN NoChange(FALSE, None)
    ELSE LET old_status == patients[PatientOf(token_number)].status
             old_position == IF old_status = "waiting"
                             THEN get_queue_position(token_number) ELSE NoPosition
         IN  Outcome(TRUE, None,
                 SetPatient(PatientOf(token_number),
                     [patients[PatientOf(token_number)] EXCEPT !.status = "cancelled"]),
                 departments, doctors,
                 Append(queue_history,
                     HistoryEntry(token_number, "CANCELLED", old_status, "cancelled",
                                  old_position, NoPosition, reason)),
                 statistics)

\* mutant: the follow-up flag is looked at before the emergency flag
priority_of_flags_followup_first(is_emergency, is_followup) ==
    IF is_followup THEN FollowUp ELSE IF is_emergency THEN Emergency ELSE Regular

\* priority = 1 if is_emergency else 3 if is_followup else 2
priority_of_flags(is_emergency, is_followup) ==
    IF is_emergency THEN Emergency ELSE IF is_followup THEN FollowUp ELSE Regular

\* HospitalQueueSystem.register_patient: patient_data carries 'department' but
\* no 'department_code', so add_patient reads None for the code
register_patient(name, is_emergency, is_followup, department) ==
    add_patient(name, priority_of_flags(is_emergency, is_followup), department, None,
                is_followup)

\* mutant: the new department wait time is also written to the waiting
\* patients of the department
update_department_wait_time_refresh(department, wait_time) ==
    IF department \in DOMAIN departments
    THEN Outcome(TRUE, None,
             [i \in 1..Len(patients) |->
                 IF patients[i].department = department /\ patients[i].status = "waiting"
                 THEN [patients[i] EXCEPT !.estimated_wait_time = wait_time]
                 ELSE patients[i]],
             [departments EXCEPT ![department].current_wait_time = wait_time],
             doctors, queue_history, statistics)
    ELSE NoChange(FALSE, None)

\* what the facade returns for the outcome o of a database call: an
\* exception is caught and False is returned
Caught(o) == IF o.raises # None THEN [o EXCEPT !.result = FALSE, !.raises = None] ELSE o

\* mutant: without a token the patient in consultation is the target
HospitalQueueSystem_complete_consultation_serving(token) ==
    IF token = NoToken
    THEN LET serving == {patients[i].token_number :
                            i \in {j \in 1..Len(patients) :
                                      patients[j].status = "in_consultation"}}
         IN  IF serving = {} THEN {NoChange(FALSE, None)}
             ELSE {Caught(complete_consultation(t)) : t \in serving}
    ELSE {Caught(complete_consultation(token))}

\* HospitalQueueSystem.complete_consultation: the outcomes the call may have;
\* without a token the target is what get_next_patient returns
HospitalQueueSystem_complete_consultation(token) ==
    IF token = NoToken
    THEN IF get_next_patient = {} THEN {NoChange(FALSE, None)}
         ELSE {Caught(complete_consultation(t)) : t \in get_next_patient}
    ELSE {Caught(complete_consultation(token))}

update_department_wait_time(department, wait_time) ==
    IF department \in DOMAIN departments
    THEN Outcome(TRUE, None, patients,
             [departments EXCEPT ![department].current_wait_time = wait_time],
             doctors, queue_history, statistics)
    ELSE NoChange(FALSE, None)

\* DELETE FROM patients (completed, registered before the threshold), then
\* DELETE FROM queue_history (older than the threshold), in one transaction;
\* queue_history.token_number REFERENCES patients(token_number) with
\* foreign_keys = ON and no ON DELETE action: deleting a referenced patient raises
clear_old_records(days) ==
    LET threshold == clock - days * TicksPerDay
        old_patient(r) == r.registration_time < threshold /\ r.status = "completed"
        kept_patient(r) == ~old_patient(r)
        kept_entry(e) == ~(e.action_time < threshold)
        doomed == {patients[i].token_number :
                      i \in {j \in 1..Len(patients) : old_patient(patients[j])}}
        referenced == {queue_history[k].token_number : k \in 1..Len(queue_history)}
        patients_deleted == Len(patients) - Len(SelectSeq(patients, kept_patient))
        history_deleted == Len(queue_history) - Len(SelectSeq(queue_history, kept_entry))
    IN  IF doomed \cap referenced # {}
        THEN NoChange(None, "IntegrityError")
        ELSE Outcome(patients_deleted + history_deleted, None,
                     SelectSeq(patients, kept_patient), departments, doctors,
                     SelectSeq(queue_history, kept_entry), statistics)

(* ---------------- actions: one call of a method ---------------- *)
\* the call returns and its transaction is the new committed state
Commit(o) ==
    /\ Len(o.patients) <= MaxPatients
    /\ Len(o.queue_history) <= MaxHistory
    /\ patients' = o.patients
    /\ departments' = o.departments
    /\ doctors' = o.doctors
    /\ queue_history' = o.queue_history
    /\ statistics' = o.statistics
    /\ UNCHANGED <<clock, pending>>

\* add_patient of client c up to the return of generate_token
\* (registrations without a department code)
GenerateToken ==
    \E c \in Clients :
        /\ pending[c] = NoToken
        /\ Len(patients) < MaxPatients
        /\ pending' = [pending EXCEPT ![c] = generate_token(None)]
        /\ UNCHANGED <<store, clock>>

\* add_patient of client c from there on: its transaction commits, or raises
\* and is rolled back
InsertPatient ==
    \E c \in Clients, p \in WalkInPriorities :
        /\ pending[c] # NoToken
        /\ LET o == insert_patient(pending[c], DefaultName, p, None, FALSE)
           IN  /\ Len(o.patients) <= MaxPatients
               /\ Len(o.queue_history) <= MaxHistory
               /\ patients' = o.patients
               /\ departments' = o.departments
               /\ doctors' = o.doctors
               /\ queue_history' = o.queue_history
               /\ statistics' = o.statistics
        /\ pending' = [pending EXCEPT ![c] = NoToken]
        /\ UNCHANGED clock

TokenInputs == ExistingTokens \cup {UnknownToken}

\* registration without a department, as register_patient(name) makes it
AddPatient == \E p \in PriorityLevels : Commit(add_patient(DefaultName, p, None, None, FALSE))

\* registration of an Emergency or a Regular patient without a department
AddWalkIn == \E p \in WalkInPriorities :
                 Commit(add_patient(DefaultName, p, None, None, FALSE))

\* registration of a Regular patient for Cardiology
AddCardiology == Commit(add_patient(DefaultName, Regular, "Cardiology", "CARD", FALSE))

\* registration with or without a department and its code
AddPatientDept == \E p \in PriorityLevels, r \in RegistrationInputs :
                      Commit(add_patient(DefaultName, p, r[1], r[2], FALSE))

\* registration through the facade, as the menu of main.py makes it
RegisterPatient == \E n \in NameInputs, e \in BOOLEAN, f \in BOOLEAN,
                      d \in DepartmentInputs : Commit(register_patient(n, e, f, d))

StartConsultation == \E t \in TokenInputs, d \in DoctorInputs :
                         Commit(start_consultation(t, d))

\* the caller starts the patient get_next_patient has returned
StartNext == \E t \in get_next_patient, d \in DoctorInputs :
                 Commit(start_consultation(t, d))

CompleteConsultation == \E t \in TokenInputs : Commit(complete_consultation(t))

CancelPatient == \E t \in TokenInputs, r \in ReasonInputs : Commit(cancel_patient(t, r))

UpdateDailyStatistics == Commit(update_daily_statistics)

\* one more registration on the busy day
AddBusyDay == \E p \in PriorityLevels :
    LET o == add_patient(DefaultName, p, None, None, FALSE)
    IN  /\ Len(o.patients) <= MaxBusyDay
        /\ patients' = o.patients
        /\ queue_history' = o.queue_history
        /\ UNCHANGED <<departments, doctors, statistics, clock, pending>>

\* menu choice 3 of main.py: complete with a token typed in, or without one
CompleteFromMenu == \E token \in TokenInputs \cup {NoToken} :
    \E o \in HospitalQueueSystem_complete_consultation(token) : Commit(o)

\* a registration while the history has room for the new patient's
\* REGISTERED and CONSULTATION_STARTED entries
AddWhileRoom ==
    /\ 2 * (Len(patients) + 1) <= MaxHistory
    /\ AddPatient

ClearOldRecords == \E days \in DaysInputs : Commit(clear_old_records(days))

UpdateDepartmentWaitTime == \E d \in DepartmentInputs \ {None}, w \in WaitTimeInputs :
                                Commit(update_department_wait_time(d, w))

\* the queue engine: every transition of a patient record
Next ==
    \/ Tick
    \/ AddPatient
    \/ StartConsultation
    \/ CompleteConsultation
    \/ CancelPatient
    \/ UpdateDailyStatistics

Spec == Init /\ [][Next]_vars

\* registration across departments, with department baselines changing
NextDept ==
    \/ Tick
    \/ AddPatientDept
    \/ CancelPatient
    \/ UpdateDepartmentWaitTime

SpecDept == Init /\ [][NextDept]_vars

\* the consulting room: walk-in patients of two classes are registered,
\* started, completed and cancelled
NextConsult ==
    \/ Tick
    \/ AddWalkIn
    \/ StartConsultation
    \/ CompleteConsultation
    \/ CancelPatient
    \/ UpdateDailyStatistics

SpecConsult == Init /\ [][NextConsult]_vars

\* the call desk: patients are registered and the head of the queue is started
NextServe ==
    \/ Tick
    \/ AddPatient
    \/ StartNext

SpecServe == Init /\ [][NextServe]_vars

\* two clients registering on one database file, step by step
NextRace ==
    \/ Tick
    \/ GenerateToken
    \/ InsertPatient
    \/ CancelPatient

SpecRace == Init /\ [][NextRace]_vars

\* the consulting room with the retention purge
NextPurge ==
    \/ Tick
    \/ AddWalkIn
    \/ StartConsultation
    \/ CompleteConsultation
    \/ UpdateDailyStatistics
    \/ ClearOldRecords

SpecPurge == Init /\ [][NextPurge]_vars

\* the whole desk: registrations with departments, consultations,
\* cancellations and the department wait-time setting
NextFrame ==
    \/ Tick
    \/ AddCardiology
    \/ StartNext
    \/ CompleteConsultation
    \/ CancelPatient
    \/ UpdateDailyStatistics
    \/ UpdateDepartmentWaitTime

SpecFrame == Init /\ [][NextFrame]_vars

\* the registration desk on a day with about a thousand patients
NextBusyDay ==
    \/ Tick
    \/ AddBusyDay

SpecBusyDay == InitBusyDay /\ [][NextBusyDay]_vars

\* the consulting room served through the menu's completion
NextMenu ==
    \/ Tick
    \/ AddWalkIn
    \/ StartConsultation
    \/ UpdateDailyStatistics
    \/ CompleteFromMenu

SpecMenu == Init /\ [][NextMenu]_vars

\* the caller that keeps serving: whenever get_next_patient returns a
\* patient, start_consultation is eventually called on it
NextDrain ==
    \/ Tick
    \/ AddWhileRoom
    \/ StartNext

SpecDrain == Init /\ [][NextDrain]_vars /\ WF_vars(StartNext)

\* the front desk: registrations through HospitalQueueSystem only
NextRegister ==
    \/ Tick
    \/ RegisterPatient

SpecRegister == Init /\ [][NextRegister]_vars

(* ======================= properties ======================= *)
StatusOf(token) == patients[PatientOf(token)].status

IsWaiting(token) == token \in ExistingTokens /\ StatusOf(token) = "waiting"

\* p is served before q: more urgent class, or same class and registered earlier
Before(i, j) ==
    \/ patients[i].priority_level < patients[j].priority_level
    \/ /\ patients[i].priority_level = patients[j].priority_level
       /\ patients[i].registration_time < patients[j].registration_time

AllowedTransitions ==
    {<<"waiting", "in_consultation">>, <<"in_consultation", "completed">>,
     <<"waiting", "cancelled">>}

\* C1: every status change of a patient record is waiting->in_consultation,
\* in_consultation->completed or waiting->cancelled; completed and cancelled
\* are terminal.
C1_StatusMachine ==
    [][\A i \in 1..Len(patients) :
          patients'[i].status # patients[i].status
              => <<patients[i].status, patients'[i].status>> \in AllowedTransitions]_vars

\* C2: cancel_patient succeeds only on a waiting patient; on an unknown token or
\* a patient that is not waiting it returns False and leaves patients, doctors
\* and history as they were.
C2_CancelOnlyFromWaiting ==
    \A t \in TokenInputs, r \in ReasonInputs :
        ~IsWaiting(t) =>
            /\ cancel_patient(t, r).result = FALSE
            /\ cancel_patient(t, r).patients = patients
            /\ cancel_patient(t, r).doctors = doctors
            /\ cancel_patient(t, r).queue_history = queue_history

\* C3: two distinct waiting patients never share a queue position, and the
\* positions are ordered as (priority_level, registration_time) orders them,
\* also for patients of one class registered in the same second.
C3_PositionsDistinct ==
    \A i, j \in Waiting :
        i # j =>
            /\ get_queue_position(patients[i].token_number)
                   # get_queue_position(patients[j].token_number)
            /\ (get_queue_position(patients[i].token_number)
                    < get_queue_position(patients[j].token_number)) <=> Before(i, j)

\* C4: get_queue_position returns -1 for an unknown token and for a patient
\* that is not waiting, and a rank >= 1 only for a waiting patient.
C4_PositionSentinel ==
    \A t \in TokenInputs :
        /\ ~IsWaiting(t) => get_queue_position(t) = NotFound
        /\ get_queue_position(t) >= 1 => IsWaiting(t)

\* C5: get_next_patient returns none exactly when nobody is waiting; otherwise
\* it returns a waiting patient at queue position 1, before whom no other
\* waiting patient is served.
C5_NextPatientIsHead ==
    /\ (get_next_patient = {}) <=> (Waiting = {})
    /\ \A t \in get_next_patient :
          /\ IsWaiting(t)
          /\ get_queue_position(t) = 1
          /\ \A k \in Waiting : ~Before(k, PatientOf(t))

\* C5 witness: an Emergency patient registered after a Regular one, both
\* waiting, is the one get_next_patient returns.
C5_Witness ==
    \E i, j \in Waiting :
        /\ i < j
        /\ patients[i].priority_level = Regular
        /\ patients[j].priority_level = Emergency
        /\ get_next_patient = {patients[j].token_number}

\* the estimate as the specification words it
SpecBase(priority) == IF priority = Emergency THEN 0
                      ELSE IF priority = Regular THEN 20 ELSE 10

SpecBaseline(department) ==
    IF department # None /\ department \in DOMAIN departments
    THEN departments[department].current_wait_time ELSE 0

SpecCountAhead(priority) ==
    Cardinality({i \in Waiting : patients[i].priority_level <= priority})

\* C6: calculate_wait_time = min(base + department baseline + 15 * countAhead, 240),
\* countAhead being the waiting patients of a more urgent class plus those of
\* the same class.
C6_WaitTimeFormula ==
    \A p \in PriorityLevels, d \in DepartmentInputs :
        calculate_wait_time(p, d)
            = Min(SpecBase(p) + SpecBaseline(d) + MinutesPerPatient * SpecCountAhead(p),
                  MaxWait)

\* C7: an Emergency patient registered while only Regular or FollowUp patients
\* wait gets an estimate without any 15-minute term and queue position 1.
C7_EmergencyJumpsQueue ==
    [][(/\ Len(patients') = Len(patients) + 1
        /\ patients'[Len(patients')].priority_level = Emergency
        /\ Waiting # {}
        /\ \A i \in Waiting : patients[i].priority_level # Emergency)
       => /\ patients'[Len(patients')].estimated_wait_time
                 = SpecBaseline(patients'[Len(patients')].department)
          /\ \A t \in ExistingTokens' :
                 t = patients'[Len(patients')].token_number
                     => get_queue_position(t)' = 1]_vars

\* C8: whatever the priority, the department and the store, the estimate
\* calculate_wait_time returns, and every stored estimated_wait_time, is at
\* most 240.
C8_WaitTimeCeiling ==
    /\ \A p \in PriorityLevels, d \in DepartmentInputs :
          calculate_wait_time(p, d) <= MaxWait
    /\ \A i \in 1..Len(patients) : patients[i].estimated_wait_time <= MaxWait

\* C8 witness: a patient was registered whose estimate was cut down to 240
\* (base and department baseline alone exceed it).
C8_Witness ==
    \E i \in 1..Len(patients) :
        /\ patients[i].estimated_wait_time = MaxWait
        /\ patients[i].department # None
        /\ SpecBase(patients[i].priority_level)
               + SpecBaseline(patients[i].department) > MaxWait

\* C9: calculate_wait_time is a function of the store and its inputs: while no
\* table changes, a second call with the same inputs returns the same value.
C9_WaitTimePure ==
    [][store' = store =>
          \A p \in PriorityLevels, d \in DepartmentInputs :
              calculate_wait_time(p, d)' = calculate_wait_time(p, d)]_vars

\* the patients registered with the prefix of patient i, in registration order
SamePrefixUpTo(i) ==
    {k \in 1..i : /\ patients[k].token_number[1] = patients[i].token_number[1]
                  /\ patients[k].token_number[2] = patients[i].token_number[2]}

C10_Sequences ==
    /\ \A i \in 1..Len(patients) :
          /\ patients[i].token_number[2] = DayOf(patients[i].registration_time)
          /\ patients[i].token_number[3] = Format(Cardinality(SamePrefixUpTo(i)))
    /\ \A i, j \in 1..Len(patients) :
          i # j => patients[i].token_number # patients[j].token_number

C10_TokenKept ==
    \A i \in 1..Len(patients) : patients'[i].token_number = patients[i].token_number

FlagInputs == BOOLEAN \X BOOLEAN

\* the record a successful registration has inserted
NewRow(o) == o.patients[Len(o.patients)]

\* C11: a patient registered through register_patient with a department gets a
\* token whose prefix is that department's code, and without a department the
\* prefix HOSP.
C11_RegisterPrefix ==
    \A n \in NameInputs, fl \in FlagInputs, d \in DepartmentInputs :
        LET o == register_patient(n, fl[1], fl[2], d)
        IN  o.raises = None =>
                o.result[1] = IF d # None THEN departments[d].department_code
                              ELSE "HOSP"

\* C12: register_patient stores Emergency whenever is_emergency is set (also
\* together with is_followup), otherwise FollowUp when is_followup is set,
\* otherwise Regular; every stored priority_level is 1, 2 or 3 and the new
\* record is waiting.
C12_PriorityFromFlags ==
    /\ \A n \in NameInputs, fl \in FlagInputs, d \in DepartmentInputs :
          LET o == register_patient(n, fl[1], fl[2], d)
          IN  o.raises = None =>
                  /\ Len(o.patients) = Len(patients) + 1
                  /\ NewRow(o).token_number = o.result
                  /\ fl[1] => NewRow(o).priority_level = Emergency
                  /\ (~fl[1] /\ fl[2]) => NewRow(o).priority_level = FollowUp
                  /\ (~fl[1] /\ ~fl[2]) => NewRow(o).priority_level = Regular
                  /\ NewRow(o).status = "waiting"
    /\ \A i \in 1..Len(patients) :
          /\ patients[i].priority_level \in {1, 2, 3}
          /\ patients[i].is_follow_up /\ ~patients[i].is_emergency
                 => patients[i].priority_level = FollowUp

\* C12 witness: a patient registered with both flags set is stored as an
\* Emergency, next to one registered as a follow-up only.
C12_Witness ==
    \E i, j \in 1..Len(patients) :
        /\ patients[i].is_follow_up /\ patients[i].priority_level = Emergency
        /\ patients[i].status = "waiting"
        /\ patients[j].is_follow_up /\ patients[j].priority_level = FollowUp

\* C13: register_patient with an empty name fails with a validation error and
\* leaves the store unchanged: no record, no token consumed, no history entry.
C13_EmptyNameRejected ==
    \A fl \in FlagInputs, d \in DepartmentInputs :
        LET o == register_patient("", fl[1], fl[2], d)
        IN  /\ o.raises = "ValidationError"
            /\ StoreOf(o) = store

Busy == [is_available |-> FALSE, current_patient_token |-> NoToken]

\* C14: start_consultation on a waiting patient returns true, makes it
\* in_consultation, stamps consultation_start_time, records the doctor and,
\* when one is given, binds that doctor and marks it unavailable; every other
\* patient record stays as it was.
C14_StartFromWaiting ==
    \A t \in TokenInputs, d \in DoctorInputs :
        IsWaiting(t) =>
            LET o == start_consultation(t, d)
                i == PatientOf(t)
            IN  /\ o.result = TRUE
                /\ Len(o.patients) = Len(patients)
                /\ o.patients[i].status = "in_consultation"
                /\ o.patients[i].consultation_start_time = clock
                /\ o.patients[i].doctor_assigned = d
                /\ d # None => o.doctors[d] = [Busy EXCEPT !.current_patient_token = t]
                /\ \A k \in 1..Len(patients) : k # i => o.patients[k] = patients[k]

\* C14 witness: a patient is in consultation with Dr. Smith, who is bound to
\* it and unavailable, while another patient is still waiting.
C14_Witness ==
    \E i \in 1..Len(patients), j \in Waiting :
        /\ patients[i].status = "in_consultation"
        /\ patients[i].consultation_start_time # NoTime
        /\ patients[i].doctor_assigned = "Dr. Smith"
        /\ doctors["Dr. Smith"] =
               [Busy EXCEPT !.current_patient_token = patients[i].token_number]

\* C15: start_consultation on an unknown token or on a patient that is not
\* waiting returns false and leaves patients, doctors, history and statistics
\* unchanged.
C15_StartRejected ==
    \A t \in TokenInputs, d \in DoctorInputs :
        ~IsWaiting(t) =>
            /\ start_consultation(t, d).result = FALSE
            /\ start_consultation(t, d).raises = None
            /\ StoreOf(start_consultation(t, d)) = store

\* C15 witness: a completed patient whose doctor, Dr. Smith, is free again;
\* a start on its token with Dr. Smith is among the calls looked at.
C15_Witness ==
    \E i \in 1..Len(patients) :
        /\ patients[i].status = "completed"
        /\ patients[i].doctor_assigned = "Dr. Smith"
        /\ doctors["Dr. Smith"].is_available

\* C16: complete_consultation on a patient in consultation returns true, makes
\* it completed, stamps consultation_end_time and frees its doctor, also when
\* no statistics row for the day exists yet.
C16_CompleteFromConsultation ==
    \A t \in ExistingTokens :
        StatusOf(t) = "in_consultation" =>
            LET o == complete_consultation(t)
                i == PatientOf(t)
                d == patients[i].doctor_assigned
            IN  /\ o.result = TRUE
                /\ o.raises = None
                /\ o.patients[i].status = "completed"
                /\ o.patients[i].consultation_end_time = clock
                /\ d # None => o.doctors[d] = [is_available |-> TRUE,
                                               current_patient_token |-> NoToken]

\* C17: complete_consultation on an unknown token or on a patient that is not
\* in consultation returns false without an exception and changes no patient,
\* doctor, history entry or statistics row.
C17_CompleteRejected ==
    \A t \in TokenInputs :
        ~(t \in ExistingTokens /\ StatusOf(t) = "in_consultation") =>
            /\ complete_consultation(t).result = FALSE
            /\ complete_consultation(t).raises = None
            /\ StoreOf(complete_consultation(t)) = store

\* C17 witness: one patient is completed (a statistics row exists, a
\* completion would go through) and another one is waiting.
C17_Witness ==
    \E i \in 1..Len(patients), j \in Waiting :
        /\ patients[i].status = "completed"
        /\ patients[i].consultation_end_time # NoTime
        /\ StatsExist(DayOf(clock))

StartedEntries(token) ==
    {k \in 1..Len(queue_history) :
        /\ queue_history[k].token_number = token
        /\ queue_history[k].action = "CONSULTATION_STARTED"}

C18_NoRestart ==
    /\ \A t \in ExistingTokens, d \in DoctorInputs :
          StatusOf(t) \in {"in_consultation", "completed"} =>
              /\ start_consultation(t, d).result = FALSE
              /\ start_consultation(t, d).patients = patients
    /\ \A t \in ExistingTokens : Cardinality(StartedEntries(t)) <= 1

C18_StartedStays ==
    \A i \in 1..Len(patients) :
        patients[i].consultation_start_time # NoTime =>
            /\ patients'[i].consultation_start_time = patients[i].consultation_start_time
            /\ patients'[i].status # "waiting"

\* C18: once a patient has been started, and so after its completion, a
\* start_consultation on its token returns false and leaves status and
\* timestamps as they were; no patient is ever started twice.
C18_StartOnce == [](C18_NoRestart) /\ [][C18_StartedStays]_vars

\* C18 witness: a patient was started once and then completed.
C18_Witness ==
    \E t \in ExistingTokens :
        /\ StatusOf(t) = "completed"
        /\ Cardinality(StartedEntries(t)) = 1
        /\ \E k \in 1..Len(queue_history) :
               /\ queue_history[k].token_number = t
               /\ queue_history[k].action = "CONSULTATION_COMPLETED"

PositionOf(i) == get_queue_position(patients[i].token_number)

\* a waiting patient leaves the waiting set: those ranked behind it move up by
\* one, the others keep their position
C19_MoveUp ==
    \A w \in Waiting :
        w \notin Waiting' =>
            \A x \in Waiting' :
                PositionOf(x)' = IF PositionOf(w) < PositionOf(x)
                                 THEN PositionOf(x) - 1 ELSE PositionOf(x)

\* an Emergency patient registered while only other classes wait
C19_EmergencyFirst ==
    (/\ Len(patients') = Len(patients) + 1
     /\ patients'[Len(patients')].priority_level = Emergency
     /\ Waiting # {}
     /\ \A a \in Waiting : patients[a].priority_level # Emergency)
    => /\ PositionOf(Len(patients))' = 1
       /\ \A a \in Waiting : PositionOf(a)' = PositionOf(a) + 1
       /\ get_next_patient' = {patients'[Len(patients')].token_number}

C19_LastOne ==
    \A a \in Waiting :
        Waiting = {a} => /\ PositionOf(a) = 1
                         /\ get_next_patient = {patients[a].token_number}

\* C19: with Regular A waiting, a newly registered Emergency B is at position
\* 1, A at 2 and get_next_patient returns B; once B has been started and
\* completed A is at position 1 and is returned. When a waiting patient leaves
\* the waiting set, those behind it move up by exactly one and the others stay.
C19_Reordering ==
    [](C19_LastOne) /\ [][C19_MoveUp /\ C19_EmergencyFirst]_vars

\* C19 witness: Emergency B, registered after Regular A, has been started and
\* completed, and A is the head of the queue.
C19_Witness ==
    \E a, b \in 1..Len(patients) :
        /\ a < b
        /\ patients[a].priority_level = Regular
        /\ patients[b].priority_level = Emergency
        /\ patients[b].status = "completed"
        /\ patients[a].status = "waiting"
        /\ PositionOf(a) = 1
        /\ get_next_patient = {patients[a].token_number}

\* C20: after cancel_patient has succeeded on a waiting patient, the patient
\* is never returned by get_next_patient or get_current_queue,
\* get_queue_position of its token is the not-found sentinel, and
\* get_queue_history of the token returns a CANCELLED entry with the reason.
C20_CancelledLeavesQueue ==
    \A k \in 1..Len(queue_history) :
        (queue_history[k].action = "CANCELLED"
            /\ queue_history[k].previous_status = "waiting") =>
            LET t == queue_history[k].token_number
            IN  /\ t \notin get_next_patient
                /\ \A d \in DepartmentInputs : \A q \in get_current_queue(d) :
                       \A n \in 1..Len(q) : q[n] # t
                /\ get_queue_position(t) = NotFound
                /\ \E r \in get_queue_history(t, DefaultLimit) :
                       /\ r.action = "CANCELLED"
                       /\ "notes" \in DOMAIN r
                       /\ r.notes = queue_history[k].notes

\* patient i goes from waiting to in_consultation in this step
StartedNow(i) ==
    /\ patients[i].status = "waiting"
    /\ patients'[i].status = "in_consultation"

C22_BoundIsUnavailable ==
    \A d \in DOMAIN doctors :
        doctors[d].current_patient_token # NoToken => ~doctors[d].is_available

\* C22 witness: Dr. Smith is bound to a patient in consultation and
\* unavailable, while the doctors without a patient are available.
C22_Witness ==
    /\ doctors["Dr. Smith"].current_patient_token \in ExistingTokens
    /\ StatusOf(doctors["Dr. Smith"].current_patient_token) = "in_consultation"
    /\ ~doctors["Dr. Smith"].is_available
    /\ \A d \in DOMAIN doctors \ {"Dr. Smith"} :
           doctors[d].current_patient_token = NoToken /\ doctors[d].is_available

InConsultationWith(d) ==
    {i \in 1..Len(patients) : /\ patients[i].status = "in_consultation"
                              /\ patients[i].doctor_assigned = d}

\* C23: at most one patient in consultation has a given doctor as
\* doctor_assigned: start_consultation does not bind a doctor who is bound to
\* another patient in consultation.
C23_OnePatientPerDoctor ==
    \A d \in DOMAIN doctors : Cardinality(InConsultationWith(d)) <= 1

\* the outcome o appends exactly one history entry, with these fields
AppendsOne(o, token, action, prev, new) ==
    /\ Len(o.queue_history) = Len(queue_history) + 1
    /\ SubSeq(o.queue_history, 1, Len(queue_history)) = queue_history
    /\ o.queue_history[Len(o.queue_history)].token_number = token
    /\ o.queue_history[Len(o.queue_history)].action = action
    /\ o.queue_history[Len(o.queue_history)].previous_status = prev
    /\ o.queue_history[Len(o.queue_history)].new_status = new

PositionBefore(o) == o.queue_history[Len(o.queue_history)].queue_position_before

C24_Register ==
    \A p \in PriorityLevels :
        LET o == add_patient(DefaultName, p, None, None, FALSE)
        IN  IF o.raises = None
            THEN AppendsOne(o, o.result, "REGISTERED", None, "waiting")
            ELSE o.queue_history = queue_history

C24_Start ==
    \A t \in TokenInputs, d \in DoctorInputs :
        LET o == start_consultation(t, d)
        IN  IF o.result = TRUE
            THEN /\ AppendsOne(o, t, "CONSULTATION_STARTED", "waiting", "in_consultation")
                 /\ StatusOf(t) = "waiting"
                 /\ PositionBefore(o) = get_queue_position(t)
            ELSE o.queue_history = queue_history

C24_Complete ==
    \A t \in TokenInputs :
        LET o == complete_consultation(t)
        IN  IF o.result = TRUE
            THEN /\ AppendsOne(o, t, "CONSULTATION_COMPLETED", "in_consultation", "completed")
                 /\ StatusOf(t) = "in_consultation"
            ELSE o.queue_history = queue_history

C24_Cancel ==
    \A t \in TokenInputs, r \in ReasonInputs :
        LET o == cancel_patient(t, r)
        IN  IF o.result = TRUE
            THEN /\ AppendsOne(o, t, "CANCELLED", StatusOf(t), "cancelled")
                 /\ StatusOf(t) = "waiting" => PositionBefore(o) = get_queue_position(t)
            ELSE o.queue_history = queue_history

C24_AppendOnly ==
    /\ Len(queue_history') >= Len(queue_history)
    /\ SubSeq(queue_history', 1, Len(queue_history)) = queue_history

\* C24: a successful register, start, complete or cancel appends exactly one
\* history entry with the token, the action tag, the status before and after
\* and, for start and cancel, the queue position held before; a failing call
\* appends none, and no call changes or removes an entry.
C24_HistoryAppend ==
    [](C24_Register /\ C24_Start /\ C24_Complete /\ C24_Cancel)
        /\ [][C24_AppendOnly]_vars

\* C24 witness: the history holds a start and a cancellation of a waiting
\* patient, each with the position held before.
C24_Witness ==
    \E a, b \in 1..Len(queue_history) :
        /\ queue_history[a].action = "CONSULTATION_STARTED"
        /\ queue_history[a].queue_position_before >= 1
        /\ queue_history[b].action = "CANCELLED"
        /\ queue_history[b].previous_status = "waiting"
        /\ queue_history[b].queue_position_before >= 1

\* a call that raises or returns false leaves every table as it was
C25_FailureLeavesNothing ==
    /\ \A t \in TokenInputs :
          complete_consultation(t).result = FALSE
              => StoreOf(complete_consultation(t)) = store
    /\ \A t \in TokenInputs, d \in DoctorInputs :
          start_consultation(t, d).result = FALSE
              => StoreOf(start_consultation(t, d)) = store
    /\ \A t \in TokenInputs, r \in ReasonInputs :
          cancel_patient(t, r).result = FALSE
              => StoreOf(cancel_patient(t, r)) = store
    /\ \A p \in PriorityLevels :
          add_patient(DefaultName, p, None, None, FALSE).raises # None
              => StoreOf(add_patient(DefaultName, p, None, None, FALSE)) = store

\* the entry a step has appended, and the record it is about
LastEntry == queue_history[Len(queue_history)]

LastEntryPatient ==
    patients[CHOOSE i \in 1..Len(patients) :
                 patients[i].token_number = LastEntry.token_number]

\* a step changes the patient, the history and the doctor together
C25_StepWhole ==
    /\ Cardinality({i \in 1..Len(patients) : patients'[i] # patients[i]}) <= 1
    /\ (patients' # patients \/ doctors' # doctors)
           => Len(queue_history') = Len(queue_history) + 1
    /\ Len(queue_history') = Len(queue_history) + 1 =>
           /\ LastEntryPatient'.status = LastEntry'.new_status
           /\ (LastEntry'.action = "CONSULTATION_STARTED"
                  /\ LastEntryPatient'.doctor_assigned \in DOMAIN doctors)
                 => doctors'[LastEntryPatient'.doctor_assigned] =
                        [is_available |-> FALSE,
                         current_patient_token |-> LastEntry'.token_number]
           /\ (LastEntry'.action = "CONSULTATION_COMPLETED"
                  /\ LastEntryPatient'.doctor_assigned \in DOMAIN doctors)
                 => doctors'[LastEntryPatient'.doctor_assigned] =
                        [is_available |-> TRUE, current_patient_token |-> NoToken]
           /\ LastEntry'.action = "CONSULTATION_COMPLETED"
                 => LastEntryPatient'.consultation_end_time # NoTime

\* C25: between operations a transition is visible either as a whole (patient
\* status, history entry and doctor binding) or not at all, also when a step
\* inside the operation fails.
C25_NoPartialMutation == [](C25_FailureLeavesNothing) /\ [][C25_StepWhole]_vars

\* C25 witness: a patient is in consultation with a doctor on a day without a
\* statistics row, so its completion fails at the statistics write.
C25_Witness ==
    \E t \in ExistingTokens :
        /\ StatusOf(t) = "in_consultation"
        /\ patients[PatientOf(t)].doctor_assigned \in DOMAIN doctors
        /\ ~StatsExist(DayOf(clock))
        /\ complete_consultation(t).raises = "OperationalError"

C26_OneRowPerDate ==
    /\ \A a, b \in 1..Len(statistics) :
          a # b => statistics[a].date # statistics[b].date
    /\ \A t \in TokenInputs :
          StatsExist(DayOf(clock))
              => complete_consultation(t).statistics = statistics
    /\ StatsExist(DayOf(clock)) => update_daily_statistics.statistics = statistics

C26_RowsKept ==
    /\ Len(statistics') >= Len(statistics)
    /\ \A k \in 1..Len(statistics) : statistics'[k] = statistics[k]

\* C26: there is at most one statistics row per calendar date, and once the
\* row of a date exists no later completion or statistics update on that date
\* changes it or adds another.
C26_ComputeOnce == [](C26_OneRowPerDate) /\ [][C26_RowsKept]_vars

CompletedOn(day) ==
    {i \in 1..Len(patients) : /\ DayOf(patients[i].registration_time) = day
                              /\ patients[i].status = "completed"}

\* C26 witness: the row of today was written with a total of 0 and is still
\* so after a patient registered today has been completed.
C26_Witness ==
    \E k \in 1..Len(statistics) :
        /\ statistics[k].date = DayOf(clock)
        /\ statistics[k].total_patients = 0
        /\ CompletedOn(DayOf(clock)) # {}

StatsRow(day) == statistics[CHOOSE k \in 1..Len(statistics) : statistics[k].date = day]

\* some completion goes through in this step, the first one of its day
FirstCompletionOfDay ==
    /\ \E i \in 1..Len(patients) : /\ patients[i].status = "in_consultation"
                                    /\ patients'[i].status = "completed"
    /\ \A i \in 1..Len(patients) :
          patients[i].status = "completed"
              => DayOf(patients[i].consultation_end_time) # DayOf(clock)

\* C27: after the first successful complete_consultation of a day a statistics
\* row of that date exists whose total and per-class counts are the numbers of
\* completed patients registered that day, the completing patient included.
C27_FirstCompletionCounts ==
    [][FirstCompletionOfDay =>
          /\ StatsExist(DayOf(clock))'
          /\ StatsRow(DayOf(clock))'.total_patients
                 = Cardinality(CompletedOn(DayOf(clock)))'
          /\ \A p \in PriorityLevels :
                 (CASE p = Emergency -> StatsRow(DayOf(clock))'.emergency_cases
                    [] p = Regular -> StatsRow(DayOf(clock))'.regular_cases
                    [] OTHER -> StatsRow(DayOf(clock))'.follow_up_cases)
                 = Cardinality({i \in CompletedOn(DayOf(clock)) :
                                   patients[i].priority_level = p})']_vars

\* C28: the REGISTERED entry add_patient writes has as queue_position_after
\* the rank (>= 1) the new patient holds among the waiting patients once it
\* is registered.
C28_RegisteredPosition ==
    [][Len(patients') = Len(patients) + 1 =>
          /\ LastEntry'.action = "REGISTERED"
          /\ LastEntry'.token_number = patients'[Len(patients')].token_number
          /\ LastEntry'.queue_position_after >= 1
          /\ LastEntry'.queue_position_after = PositionOf(Len(patients))']_vars

C29_Ordered ==
    \A i \in 1..Len(patients) :
        /\ patients[i].consultation_start_time # NoTime
               => patients[i].registration_time <= patients[i].consultation_start_time
        /\ patients[i].consultation_end_time # NoTime
               => /\ patients[i].consultation_start_time # NoTime
                  /\ patients[i].consultation_start_time
                         <= patients[i].consultation_end_time

C29_SetOnce ==
    \A i \in 1..Len(patients) :
        /\ patients'[i].registration_time = patients[i].registration_time
        /\ patients'[i].consultation_start_time # patients[i].consultation_start_time
               => /\ StartedNow(i)
                  /\ patients[i].consultation_start_time = NoTime
                  /\ patients'[i].consultation_start_time = clock
        /\ patients'[i].consultation_end_time # patients[i].consultation_end_time
               => /\ patients[i].status = "in_consultation"
                  /\ patients'[i].status = "completed"
                  /\ patients[i].consultation_end_time = NoTime
                  /\ patients'[i].consultation_end_time = clock

C29_NewUnstamped ==
    Len(patients') = Len(patients) + 1 =>
        /\ patients'[Len(patients')].consultation_start_time = NoTime
        /\ patients'[Len(patients')].consultation_end_time = NoTime

\* C29: consultation_start_time is set only by a successful start and
\* consultation_end_time only by a successful completion; once set neither
\* changes, and registration_time <= consultation_start_time <=
\* consultation_end_time whenever the later ones are set.
C29_Timestamps == [](C29_Ordered) /\ [][C29_SetOnce /\ C29_NewUnstamped]_vars

\* C29 witness: a patient started in one second and completed in a later one.
C29_Witness ==
    \E i \in 1..Len(patients) :
        /\ patients[i].status = "completed"
        /\ patients[i].registration_time <= patients[i].consultation_start_time
        /\ patients[i].consultation_start_time < patients[i].consultation_end_time

InFlight == {c \in Clients : pending[c] # NoToken}

\* the stored tokens are pairwise distinct
C30_TokensUnique ==
    \A i, j \in 1..Len(patients) :
        i # j => patients[i].token_number # patients[j].token_number

\* a client that derives its token while another one holds a token of the day
\* that is not inserted yet derives the same token
C30_SameToken ==
    \A c \in InFlight :
        (pending[c] \notin ExistingTokens /\ pending[c][2] = DayOf(clock))
            => generate_token(None) = pending[c]

\* the insert of a token that is stored meanwhile is rejected and leaves no
\* patient record and no history entry; any other insert goes through
C30_SecondRejected ==
    \A c \in InFlight, p \in WalkInPriorities :
        LET o == insert_patient(pending[c], DefaultName, p, None, FALSE)
        IN  IF pending[c] \in ExistingTokens
            THEN o.raises = "IntegrityError" /\ StoreOf(o) = store
            ELSE /\ o.raises = None
                 /\ o.result = pending[c]
                 /\ Len(o.patients) = Len(patients) + 1

\* a registration made in one piece never derives a stored token
C30_SerialSucceeds ==
    /\ generate_token(None) \notin ExistingTokens
    /\ \A p \in WalkInPriorities :
          add_patient(DefaultName, p, None, None, FALSE).raises = None

\* C30: two add_patient calls that both derive their token before either
\* inserts derive the same token; the stored tokens stay unique because the
\* second insert is rejected and leaves no patient record and no history
\* entry; a registration that is not interleaved does not fail.
C30_TokenRace ==
    C30_TokensUnique /\ C30_SameToken /\ C30_SecondRejected /\ C30_SerialSucceeds

\* C30 witness: both clients derived the same token, one has inserted it and
\* the other is about to insert it.
C30_Witness ==
    \E c \in InFlight :
        /\ pending[c] \in ExistingTokens
        /\ insert_patient(pending[c], DefaultName, Regular, None, FALSE).raises
               = "IntegrityError"

OldCompleted(days) ==
    {i \in 1..Len(patients) :
        /\ patients[i].status = "completed"
        /\ patients[i].registration_time < clock - days * TicksPerDay}

OldEntries(days) ==
    {k \in 1..Len(queue_history) :
        queue_history[k].action_time < clock - days * TicksPerDay}

\* C31: clear_old_records deletes every completed patient registered before
\* the threshold and every history entry older than it, leaves the other
\* patients untouched and returns the number of rows deleted, also when the
\* patients to delete still have history entries.
C31_PurgeDeletes ==
    \A days \in DaysInputs :
        LET o == clear_old_records(days)
        IN  /\ o.raises = None
            /\ o.result = Cardinality(OldCompleted(days)) + Cardinality(OldEntries(days))
            /\ Len(o.patients) = Len(patients) - Cardinality(OldCompleted(days))
            /\ Len(o.queue_history) = Len(queue_history) - Cardinality(OldEntries(days))
            /\ \A i \in 1..Len(patients) :
                   i \notin OldCompleted(days) =>
                       \E j \in 1..Len(o.patients) : o.patients[j] = patients[i]

\* C32: the estimated_wait_time stored on a patient record is fixed at
\* registration: no step (a later registration, start_consultation,
\* complete_consultation, cancel_patient, update_department_wait_time)
\* changes the stored estimate of an existing patient.
C32_StoredEstimateFixed ==
    [][\A t \in ExistingTokens :
          /\ t \in ExistingTokens'
          /\ patients'[PatientOf(t)'].estimated_wait_time =
                 patients[PatientOf(t)].estimated_wait_time]_vars

\* a waiting patient now at the head of the queue of a department whose wait
\* time was changed, still carrying the estimate computed at its registration
C32_Witness ==
    \E i \in Waiting :
        /\ get_queue_position(patients[i].token_number) = 1
        /\ departments[patients[i].department].current_wait_time \in WaitTimeInputs
        /\ patients[i].estimated_wait_time #
               calculate_wait_time(patients[i].priority_level, patients[i].department)
        /\ \E j \in 1..Len(patients) : patients[j].status \in {"completed", "cancelled"}

\* C33: a doctor whose current_patient_token is t is unavailable and bound to
\* an existing patient t whose status is in_consultation and whose
\* doctor_assigned is that doctor; a doctor assigned to a patient that is in
\* consultation is not released.
C33_DoctorBinding ==
    /\ \A d \in DOMAIN doctors :
           doctors[d].current_patient_token # NoToken =>
               /\ ~doctors[d].is_available
               /\ doctors[d].current_patient_token \in ExistingTokens
               /\ PatientOf(doctors[d].current_patient_token) \in InConsultationWith(d)
    /\ \A d \in DOMAIN doctors :
           InConsultationWith(d) # {} => doctors[d].current_patient_token # NoToken

\* C34: generate_token never returns a token that is already in the patients
\* table, for any number of registrations with the same prefix on the same
\* day, beyond 999 as well.
C34_TokenFresh ==
    \A code \in {r[2] : r \in RegistrationInputs} :
        generate_token(code) \notin ExistingTokens

\* C35: HospitalQueueSystem.complete_consultation called without a token
\* targets the head of the waiting queue, so it returns False and changes no
\* patient, doctor, history or statistics row, whether the waiting set is
\* empty or not.
C35_CompleteWithoutToken ==
    \A o \in HospitalQueueSystem_complete_consultation(NoToken) :
        /\ o.result = FALSE
        /\ o.raises = None
        /\ StoreOf(o) = store

\* C35 witness: a patient is waiting and another is in consultation on a day
\* whose statistics row exists, so that completing the latter would succeed
C35_Witness ==
    /\ Waiting # {}
    /\ StatsExist(DayOf(clock))
    /\ \E i \in 1..Len(patients) :
           /\ patients[i].status = "in_consultation"
           /\ complete_consultation(patients[i].token_number).result = TRUE

\* the history entries of a token, in append order
EntriesOf(token) ==
    LET of_token(e) == e.token_number = token
    IN  SelectSeq(queue_history, of_token)

====
